---- MODULE Spec2Model ----
(***************************************************************************)
(* Generational index allocator and generation-checked sparse array of     *)
(* src/src/allocation.rs, as a state machine.                              *)
(*                                                                         *)
(* Program state: entries, free (GenerationalIndexAllocator) and arr       *)
(* (GenerationalIndexArray).  Vec positions are 0-based in the source and  *)
(* 1-based in TLA+ sequences: slot i of the source is entries[i + 1].      *)
(* Option<T> is a set with at most one element: None is {}, Some(x) is {x}.*)
(*                                                                         *)
(* History variables (written by the actions, never read by the modelled   *)
(* code): op, arg, val, ret record the last call and its result; held,     *)
(* freed, recycled, age, freedOrder, lifo, run, churn, setHist, lastSet    *)
(* record what a caller has observed so far.                               *)
(***************************************************************************)
EXTENDS Integers, Sequences, FiniteSets, TLC

\* Bounds of the allocator taken alone (SpecAlloc): slots in the table, and
\* the largest generation a slot reaches.
MaxSlots == 3
MaxGen == 2

\* Bounds of an array taken alone (SpecArray): the handles offered to it.
MaxArrIndex == 1
MaxArrGen == 1
MaxVal == 2

\* Bounds of the allocator and an array used together (Spec).
MaxEntities == 1
MaxEntityGen == 1

\* Bounds of the allocator with a wrapping generation counter (SpecWrap): the
\* width of the counter in bits (64 in the source), and the slots in the table.
GenBits == 2
MaxWrapSlots == 1

\* the number of values of the generation counter
GenModulus == 2 ^ GenBits

Values == 1..MaxVal

\* struct GenerationalIndex { index: usize, generation: u64 }
GenerationalIndex(i, g) == [index |-> i, generation |-> g]

\* the handles offered to deallocate: every slot position, one position past
\* the largest table, every generation
Handles == [index : 0..MaxSlots, generation : 0..MaxGen]

\* the handles offered to deallocate when the counter wraps
WrapHandles == [index : 0..MaxWrapSlots, generation : 0..(GenModulus - 1)]

\* the handles offered to an array taken alone
ArrHandles == [index : 0..MaxArrIndex, generation : 0..MaxArrGen]

Indices == (0..MaxSlots) \cup (0..MaxArrIndex)

\* The argument slot of a call that takes no handle.
NoHandle == [index |-> 0 - 1, generation |-> 0 - 1]

VARIABLES entries, free, arr,
          op, arg, val, ret,
          held, freed, recycled, age, freedOrder, lifo, run, churn,
          setHist, lastSet

allocVars == <<entries, free>>
allocHist == <<held, freed, recycled, age, freedOrder, lifo, run, churn>>
vars == <<entries, free, arr, op, arg, val, ret,
          held, freed, recycled, age, freedOrder, lifo, run, churn,
          setHist, lastSet>>

-----------------------------------------------------------------------------
(* GenerationalIndexAllocator *)

\* AllocatorEntry { is_live, generation }
AllocatorEntry(live, gen) == [is_live |-> live, generation |-> gen]

\* variant of next_generation: the increment is forgotten
next_generation_same(g) == g

\* allocator_entry.generation += 1 (u64; the guards of Allocate keep the
\* counter below MaxGen, far from the width of the type)
next_generation(g) == g + 1

\* variant of pop_rest: the popped index stays in the Vec
pop_rest_keep(fr) == fr

\* self.free.pop(): the last element leaves the Vec
pop_rest(fr) == SubSeq(fr, 1, Len(fr) - 1)

pop_value(fr) == fr[Len(fr)]

\* variant of push: the index goes to the bottom of the stack
push_front(fr, i) == <<i>> \o fr

\* self.free.push(i)
push(fr, i) == Append(fr, i)

\* the reuse test of allocate: entries.get_mut(potential_index) is Some and
\* the entry is not live
can_reuse(es, potential_index) ==
    /\ potential_index < Len(es)
    /\ ~es[potential_index + 1].is_live

\* variant of new_index: the length after the push, not before it
new_index_after_push(es) == Len(es) + 1

\* the index and generation of a completely new slot
new_index(es) == Len(es)

new_generation == 0

\* variant of allocate: a reused slot starts again at generation 0
allocate_reinit(es, fr) ==
    IF fr # <<>> /\ can_reuse(es, pop_value(fr))
    THEN LET potential_index == pop_value(fr)
         IN  [entries |-> [es EXCEPT ![potential_index + 1] =
                                          AllocatorEntry(TRUE, new_generation)],
              free    |-> pop_rest(fr),
              ret     |-> GenerationalIndex(potential_index, new_generation)]
    ELSE [entries |-> Append(es, AllocatorEntry(TRUE, new_generation)),
          free    |-> IF fr # <<>> THEN pop_rest(fr) ELSE fr,
          ret     |-> GenerationalIndex(new_index(es), new_generation)]

\* allocate(&mut self) -> GenerationalIndex: the new entries, the new free
\* list and the returned handle
allocate(es, fr) ==
    IF fr # <<>> /\ can_reuse(es, pop_value(fr))
    THEN LET potential_index == pop_value(fr)
             g == next_generation(es[potential_index + 1].generation)
         IN  [entries |-> [es EXCEPT ![potential_index + 1] = AllocatorEntry(TRUE, g)],
              free    |-> pop_rest(fr),
              ret     |-> GenerationalIndex(potential_index, g)]
    ELSE [entries |-> Append(es, AllocatorEntry(TRUE, new_generation)),
          free    |-> IF fr # <<>> THEN pop_rest(fr) ELSE fr,
          ret     |-> GenerationalIndex(new_index(es), new_generation)]

\* variant of wrapping_generation: the counter stops at its largest value
saturating_generation(g) == IF g + 1 < GenModulus THEN g + 1 ELSE g

\* allocator_entry.generation += 1 in a build without overflow checks: the
\* unsigned counter wraps to 0 after its largest value
wrapping_generation(g) == (g + 1) % GenModulus

\* allocate(&mut self) -> GenerationalIndex with the wrapping increment
allocate_wrapping(es, fr) ==
    IF fr # <<>> /\ can_reuse(es, pop_value(fr))
    THEN LET potential_index == pop_value(fr)
             g == wrapping_generation(es[potential_index + 1].generation)
         IN  [entries |-> [es EXCEPT ![potential_index + 1] = AllocatorEntry(TRUE, g)],
              free    |-> pop_rest(fr),
              ret     |-> GenerationalIndex(potential_index, g)]
    ELSE [entries |-> Append(es, AllocatorEntry(TRUE, new_generation)),
          free    |-> IF fr # <<>> THEN pop_rest(fr) ELSE fr,
          ret     |-> GenerationalIndex(new_index(es), new_generation)]

\* variant of dealloc_rejects: the generation is not compared
dealloc_rejects_no_generation(es, h) ==
    \/ ~(h.index < Len(es))
    \/ ~es[h.index + 1].is_live

\* variant of dealloc_rejects: a dead slot is not turned away
dealloc_rejects_no_live(es, h) ==
    \/ ~(h.index < Len(es))
    \/ es[h.index + 1].generation # h.generation

\* the three early returns of deallocate
dealloc_rejects(es, h) ==
    \/ ~(h.index < Len(es))
    \/ ~es[h.index + 1].is_live
    \/ es[h.index + 1].generation # h.generation

\* variant of deallocate: a dead slot is released again
deallocate_dead_again(es, fr, h) ==
    IF ~(h.index < Len(es)) \/ es[h.index + 1].generation # h.generation
    THEN [entries |-> es, free |-> fr, ret |-> FALSE]
    ELSE [entries |-> [es EXCEPT ![h.index + 1].is_live = FALSE],
          free    |-> push(fr, h.index),
          ret     |-> TRUE]

\* variant of deallocate: the index is pushed before the handle is validated
deallocate_push_first(es, fr, h) ==
    IF dealloc_rejects(es, h)
    THEN [entries |-> es, free |-> push(fr, h.index), ret |-> FALSE]
    ELSE [entries |-> [es EXCEPT ![h.index + 1].is_live = FALSE],
          free    |-> push(fr, h.index),
          ret     |-> TRUE]

\* variant of deallocate: the slot is marked dead but never offered for reuse
deallocate_no_push(es, fr, h) ==
    IF dealloc_rejects(es, h)
    THEN [entries |-> es, free |-> fr, ret |-> FALSE]
    ELSE [entries |-> [es EXCEPT ![h.index + 1].is_live = FALSE],
          free    |-> fr,
          ret     |-> TRUE]

\* variant of deallocate: the slot before the one named is marked dead
deallocate_wrong_slot(es, fr, h) ==
    IF dealloc_rejects(es, h)
    THEN [entries |-> es, free |-> fr, ret |-> FALSE]
    ELSE [entries |-> [es EXCEPT ![h.index].is_live = FALSE],
          free    |-> push(fr, h.index),
          ret     |-> TRUE]

\* variant of deallocate: the index is pushed but the slot stays live
deallocate_keeps_live(es, fr, h) ==
    IF dealloc_rejects(es, h)
    THEN [entries |-> es, free |-> fr, ret |-> FALSE]
    ELSE [entries |-> es, free |-> push(fr, h.index), ret |-> TRUE]

\* deallocate(&mut self, index) -> bool
deallocate(es, fr, h) ==
    IF dealloc_rejects(es, h)
    THEN [entries |-> es, free |-> fr, ret |-> FALSE]
    ELSE [entries |-> [es EXCEPT ![h.index + 1].is_live = FALSE],
          free    |-> push(fr, h.index),
          ret     |-> TRUE]

\* variant of is_live: the liveness flag is not read
is_live_generation_only(es, h) ==
    IF h.index < Len(es)
    THEN es[h.index + 1].generation = h.generation
    ELSE FALSE

\* is_live(&self, index) -> bool
is_live(es, h) ==
    IF h.index < Len(es)
    THEN es[h.index + 1].generation = h.generation /\ es[h.index + 1].is_live
    ELSE FALSE

-----------------------------------------------------------------------------
(* GenerationalIndexArray<T> *)

\* ArrayEntry { value, generation }
ArrayEntry(v, gen) == [value |-> v, generation |-> gen]

\* while self.0.len() <= inx + 1 { self.0.push(None) }
RECURSIVE extend(_, _)
extend(a, inx) == IF Len(a) <= inx + 1 THEN extend(Append(a, {}), inx) ELSE a

\* variant of set: an occupied position is left as it is
set_if_absent(a, h, v) ==
    LET b == extend(a, h.index)
    IN  IF b[h.index + 1] = {}
        THEN [b EXCEPT ![h.index + 1] = {ArrayEntry(v, h.generation)}]
        ELSE b

\* variant of set: the entry is stamped with generation 0
set_unstamped(a, h, v) ==
    [extend(a, h.index) EXCEPT ![h.index + 1] = {ArrayEntry(v, 0)}]

\* variant of set: the storage is cut to the position written
set_truncating(a, h, v) ==
    LET b == extend(a, h.index)
    IN  [SubSeq(b, 1, h.index + 1) EXCEPT ![h.index + 1] = {ArrayEntry(v, h.generation)}]

\* set(&mut self, index, value)
set(a, h, v) ==
    [extend(a, h.index) EXCEPT ![h.index + 1] = {ArrayEntry(v, h.generation)}]

\* variant of get: the generation is not compared
get_any_generation(a, h) ==
    IF Len(a) <= h.index
    THEN {}
    ELSE {e.value : e \in a[h.index + 1]}

\* get(&self, index) -> Option<&T>
get(a, h) ==
    IF Len(a) <= h.index
    THEN {}
    ELSE LET slot == a[h.index + 1]
         IN  IF slot = {}
             THEN {}
             ELSE LET entry == CHOOSE e \in slot : TRUE
                  IN  IF h.generation = entry.generation THEN {entry.value} ELSE {}

\* variant of get_mut: the generation is not compared
get_mut_any_generation(a, h) ==
    IF Len(a) <= h.index
    THEN {}
    ELSE {e.value : e \in a[h.index + 1]}

\* get_mut(&mut self, index) -> Option<&mut T>: the value the reference
\* points at
get_mut(a, h) ==
    IF Len(a) <= h.index
    THEN {}
    ELSE LET slot == a[h.index + 1]
         IN  IF slot = {}
             THEN {}
             ELSE LET entry == CHOOSE e \in slot : TRUE
                  IN  IF h.generation = entry.generation THEN {entry.value} ELSE {}

\* an assignment through the reference get_mut returned: entry.value changes,
\* entry.generation stays
write_through(a, h, v) ==
    LET entry == CHOOSE e \in a[h.index + 1] : TRUE
    IN  [a EXCEPT ![h.index + 1] = {ArrayEntry(v, entry.generation)}]

-----------------------------------------------------------------------------
(* State machine *)

Init ==
    /\ entries = <<>>
    /\ free = <<>>
    /\ arr = <<>>
    /\ op = "new"
    /\ arg = NoHandle
    /\ val = 0
    /\ ret = FALSE
    /\ held = {}
    /\ freed = {}
    /\ recycled = {}
    /\ age = <<>>
    /\ freedOrder = <<>>
    /\ lifo = <<>>
    /\ run = [ok |-> TRUE, hs |-> <<>>]
    /\ churn = [ok |-> TRUE, pending |-> FALSE, hs |-> <<>>, rets |-> <<>>]
    /\ setHist = [i \in Indices |-> {}]
    /\ lastSet = [phase |-> "none", handle |-> NoHandle, value |-> 0, h2 |-> NoHandle,
                  replaced |-> {}]

\* the sequence s without its elements equal to x
RECURSIVE Without(_, _)
Without(s, x) ==
    IF s = <<>> THEN <<>>
    ELSE IF s[1] = x THEN Without(Tail(s), x)
    ELSE <<s[1]>> \o Without(Tail(s), x)

\* the handles allocate has returned so far
known == held \cup freed \cup recycled

\* how many times the slot of handle k has been reused since allocate last
\* returned k
AgeOf(k) == IF k \in DOMAIN age THEN age[k] ELSE 0

\* what a call of allocate with result r leaves behind; c is the record of
\* the allocate/deallocate rounds after it
AllocateReturns(r, c) ==
    LET h == r.ret
    IN  /\ entries' = r.entries
        /\ free' = r.free
        /\ op' = "allocate"
        /\ arg' = NoHandle
        /\ val' = 0
        /\ ret' = h
        /\ held' = held \cup {h}
        /\ recycled' = recycled \cup {f \in freed : f.index = h.index}
        /\ freed' = {f \in freed : f.index # h.index}
        /\ age' = [k \in known \cup {h} |->
                     IF k = h THEN 0
                     ELSE IF k.index = h.index THEN AgeOf(k) + 1
                     ELSE AgeOf(k)]
        /\ freedOrder' = Without(freedOrder, h.index)
        /\ lifo' = IF Len(lifo) \in {2, 3} THEN Append(lifo, h) ELSE <<>>
        /\ run' = IF run.ok THEN [run EXCEPT !.hs = Append(@, h)] ELSE run
        /\ churn' = c
        /\ lastSet' = IF lastSet.phase = "freed" /\ lastSet.handle.index = h.index
                      THEN [lastSet EXCEPT !.phase = "recycled", !.h2 = h]
                      ELSE lastSet
        /\ UNCHANGED <<arr, setHist>>

NoChurn == [ok |-> FALSE, pending |-> FALSE, hs |-> <<>>, rets |-> <<>>]

Allocate ==
    LET r == allocate(entries, free)
        h == r.ret
    IN  /\ Len(r.entries) <= MaxSlots
        /\ h.generation <= MaxGen
        /\ AllocateReturns(r, IF churn.ok /\ ~churn.pending
                              THEN [churn EXCEPT !.pending = TRUE, !.hs = Append(@, h)]
                              ELSE NoChurn)

\* allocate in a build without overflow checks.  (With overflow checks the
\* increment past the largest value aborts the program: the behaviour ends
\* before this step.)
AllocateWrapping ==
    LET r == allocate_wrapping(entries, free)
    IN  /\ Len(r.entries) <= MaxWrapSlots
        /\ AllocateReturns(r, NoChurn)

\* variant of Deallocate: a successful deallocate also empties the array
\* position of the handle
DeallocateClearing(h) ==
    LET r == deallocate(entries, free, h)
    IN  /\ entries' = r.entries
        /\ free' = r.free
        /\ op' = "deallocate"
        /\ arg' = h
        /\ val' = 0
        /\ ret' = r.ret
        /\ held' = IF r.ret THEN held \ {h} ELSE held
        /\ freed' = IF r.ret THEN freed \cup {h} ELSE freed
        /\ freedOrder' = IF r.ret THEN Append(freedOrder, h.index) ELSE freedOrder
        /\ lifo' = <<>>
        /\ run' = [ok |-> FALSE, hs |-> <<>>]
        /\ churn' = [ok |-> FALSE, pending |-> FALSE, hs |-> <<>>, rets |-> <<>>]
        /\ lastSet' = lastSet
        /\ arr' = IF r.ret /\ h.index < Len(arr)
                  THEN [arr EXCEPT ![h.index + 1] = {}]
                  ELSE arr
        /\ UNCHANGED <<recycled, age, setHist>>

Deallocate(h) ==
    LET r == deallocate(entries, free, h)
    IN  /\ entries' = r.entries
        /\ free' = r.free
        /\ op' = "deallocate"
        /\ arg' = h
        /\ val' = 0
        /\ ret' = r.ret
        /\ held' = IF r.ret THEN held \ {h} ELSE held
        /\ freed' = IF r.ret THEN freed \cup {h} ELSE freed
        /\ freedOrder' = IF r.ret THEN Append(freedOrder, h.index) ELSE freedOrder
        /\ lifo' = IF ~r.ret THEN <<>>
                   ELSE IF Len(lifo) \in {1, 2} THEN <<lifo[Len(lifo)], h>>
                   ELSE <<h>>
        /\ run' = [ok |-> FALSE, hs |-> <<>>]
        /\ churn' = IF churn.ok /\ churn.pending /\ churn.hs[Len(churn.hs)] = h
                    THEN [churn EXCEPT !.pending = FALSE, !.rets = Append(@, r.ret)]
                    ELSE [ok |-> FALSE, pending |-> FALSE, hs |-> <<>>, rets |-> <<>>]
        /\ lastSet' = IF r.ret /\ lastSet.phase = "stored" /\ lastSet.handle = h
                      THEN [lastSet EXCEPT !.phase = "freed"]
                      ELSE lastSet
        /\ UNCHANGED <<arr, recycled, age, setHist>>

Set(h, v) ==
    /\ arr' = set(arr, h, v)
    /\ op' = "set"
    /\ arg' = h
    /\ val' = v
    /\ ret' = FALSE
    /\ setHist' = [setHist EXCEPT ![h.index] = {ArrayEntry(v, h.generation)}]
    /\ lastSet' = [phase |-> "stored", handle |-> h, value |-> v, h2 |-> NoHandle,
                    replaced |-> setHist[h.index]]
    /\ UNCHANGED <<allocVars, allocHist>>

\* get_mut(h), and the caller assigning v through the reference when one is
\* returned
GetMut(h, v) ==
    LET r == get_mut(arr, h)
    IN  /\ arr' = IF r # {} THEN write_through(arr, h, v) ELSE arr
        /\ op' = "get_mut"
        /\ arg' = h
        /\ val' = IF r # {} THEN v ELSE 0
        /\ ret' = r
        /\ setHist' = IF r # {}
                      THEN [setHist EXCEPT ![h.index] =
                               {ArrayEntry(v, e.generation) : e \in @}]
                      ELSE setHist
        /\ lastSet' = IF r # {}
                      THEN [phase |-> "none", handle |-> NoHandle, value |-> 0,
                            h2 |-> NoHandle, replaced |-> {}]
                      ELSE lastSet
        /\ UNCHANGED <<allocVars, allocHist>>

AllocatorStep == Allocate \/ \E h \in Handles : Deallocate(h)

ArrayStep == \E h \in ArrHandles, v \in Values : Set(h, v) \/ GetMut(h, v)

\* a caller that owns one allocator and one array: it deallocates handles it got
\* from allocate, stale ones included, and stores under the handles it holds
EntityAllocate ==
    /\ Allocate
    /\ Len(entries') <= MaxEntities
    /\ ret'.generation <= MaxEntityGen

EntityDeallocate == \E h \in known : Deallocate(h)

EntitySet == \E h \in held, v \in Values : Set(h, v)

EntityGetMut == \E h \in held, v \in Values : GetMut(h, v)

Next == EntityAllocate \/ EntityDeallocate \/ EntitySet \/ EntityGetMut

\* the allocator and an array used together
Spec == Init /\ [][Next]_vars

\* the allocator alone, deallocate given arbitrary handles
SpecAlloc == Init /\ [][AllocatorStep]_vars

\* one array alone, given arbitrary handles
SpecArray == Init /\ [][ArrayStep]_vars

WrapStep == AllocateWrapping \/ \E h \in WrapHandles : Deallocate(h)

\* the allocator alone, with a generation counter of GenBits bits that wraps
SpecWrap == Init /\ [][WrapStep]_vars

-----------------------------------------------------------------------------
(* Properties *)

Last(s) == s[Len(s)]

\* how many times x occurs in the sequence s
Count(s, x) == Cardinality({i \in 1..Len(s) : s[i] = x})

\* C1 (reuse invalidation): when deallocate(h) has just returned true and the
\* next call is allocate, the handle h2 it returns has h2.index = h.index,
\* h2.generation = h.generation + 1 and h2 # h.
ReuseInvalidation ==
    [][(op = "deallocate" /\ ret = TRUE /\ op' = "allocate") =>
           /\ ret'.index = arg.index
           /\ ret'.generation = arg.generation + 1
           /\ ret' # arg]_vars

\* an allocate that has just recycled the slot of a handle of generation 1,
\* in a table of two slots
ReuseInvalidationWitness ==
    /\ op = "allocate"
    /\ Len(entries) = 2
    /\ ret.generation = 2
    /\ GenerationalIndex(ret.index, 1) \in recycled

\* C2 (stale handles are rejected by the allocator): for every handle h whose
\* slot has been recycled, in the state after the recycling allocate and in
\* every later state, is_live(h) is false and deallocate(h) returns false
\* (both as a call that was made and as the call that could be made next);
\* right after a recycling allocate the handle it returned is live.
StaleHandleRejected ==
    /\ \A h \in recycled :
          /\ ~is_live(entries, h)
          /\ deallocate(entries, free, h).ret = FALSE
    /\ (op = "deallocate" /\ arg \in recycled) => ret = FALSE
    /\ (op = "allocate" /\ \E h \in recycled : h.index = ret.index)
          => is_live(entries, ret)

\* deallocate was called with a recycled handle while its slot is live again
StaleHandleRejectedWitness ==
    /\ op = "deallocate"
    /\ arg \in recycled
    /\ ret = FALSE
    /\ entries[arg.index + 1].is_live

\* C4 (LIFO free list): allocate, called when some freed index has not been
\* reused yet, returns the most recently freed of these indices; and after
\* deallocate(a), deallocate(b) both returning true with nothing in between,
\* the next two allocate calls return index b and then index a.
LifoOrder ==
    [][/\ (op' = "allocate" /\ freedOrder # <<>>)
             => ret'.index = Last(freedOrder)
       /\ Len(lifo') >= 3 => lifo'[3].index = lifo'[2].index
       /\ Len(lifo') = 4 => lifo'[4].index = lifo'[1].index]_vars

\* deallocate(a), deallocate(b), allocate, allocate have just been called
LifoOrderWitness ==
    /\ Len(lifo) = 4
    /\ lifo[1].index # lifo[2].index
    /\ op = "allocate"

\* C5 (monotonic index assignment): after N allocate calls on a new allocator
\* and no deallocate call, the i-th returned handle is {index i-1,
\* generation 0}, the slot table has N slots and all of them are live.
MonotonicIndex ==
    run.ok =>
        /\ \A i \in 1..Len(run.hs) : run.hs[i] = GenerationalIndex(i - 1, 0)
        /\ Len(entries) = Len(run.hs)
        /\ \A i \in 1..Len(entries) : entries[i].is_live

\* as many allocate calls as the table may hold slots, and nothing else
MonotonicIndexWitness ==
    /\ run.ok
    /\ Len(run.hs) = MaxSlots
    /\ op = "allocate"

\* C6 (generation sequence under churn): on a new allocator, after k rounds
\* of h := allocate(); deallocate(h), all k handles have the same index, the
\* i-th has generation i-1, and every deallocate returned true.
ChurnGenerations ==
    churn.ok =>
        /\ \A i \in 1..Len(churn.hs) :
              /\ churn.hs[i].index = churn.hs[1].index
              /\ churn.hs[i].generation = i - 1
        /\ \A j \in 1..Len(churn.rets) : churn.rets[j] = TRUE

\* MaxGen + 1 complete rounds
ChurnGenerationsWitness ==
    /\ churn.ok
    /\ ~churn.pending
    /\ Len(churn.rets) = MaxGen + 1

\* C7 (double deallocation is safe): deallocate of a live handle returns
\* true; a second deallocate of the same handle right after returns false and
\* leaves the slot table and the free list as they were, with the index once
\* in the free list; and the handles returned by allocate and not yet
\* deallocated never include two with the same index.
DoubleDeallocate ==
    [][/\ (op' = "deallocate" /\ is_live(entries, arg')) => ret' = TRUE
       /\ (op = "deallocate" /\ ret = TRUE /\ op' = "deallocate" /\ arg' = arg)
             => /\ ret' = FALSE
                /\ entries' = entries
                /\ free' = free
                /\ Count(free', arg.index) = 1
       /\ \A a \in held', b \in held' : a.index = b.index => a = b]_vars

\* a deallocate of a handle that was deallocated before and whose slot has
\* not been recycled since
DoubleDeallocateWitness ==
    /\ op = "deallocate"
    /\ arg \in freed
    /\ ret = FALSE
    /\ Len(free) = 2

\* C8 (deallocate contract): deallocate(h) returns false exactly when h.index
\* is out of range, or the slot is dead, or its generation differs from
\* h.generation, and then it changes neither the slot table nor the free
\* list; otherwise it returns true, the slot of h becomes dead with its
\* generation unchanged, h.index is pushed on top of the free list, and the
\* table length and every other slot are unchanged.
DeallocateContract ==
    [][op' = "deallocate" =>
         LET h == arg'
             i == h.index + 1
             rejected == \/ h.index >= Len(entries)
                         \/ ~entries[i].is_live
                         \/ entries[i].generation # h.generation
         IN  /\ ret' = FALSE <=> rejected
             /\ rejected => entries' = entries /\ free' = free
             /\ ~rejected =>
                   /\ ret' = TRUE
                   /\ Len(entries') = Len(entries)
                   /\ entries'[i].is_live = FALSE
                   /\ entries'[i].generation = entries[i].generation
                   /\ \A j \in 1..Len(entries) : j # i => entries'[j] = entries[j]
                   /\ free' = Append(free, h.index)]_vars

\* a successful deallocate of slot 0 while slot 1 stays live
DeallocateContractWitness ==
    /\ op = "deallocate"
    /\ ret = TRUE
    /\ arg.index = 0
    /\ Len(entries) = 2
    /\ entries[2].is_live
    /\ Last(free) = 0

\* C3, as claimed (stale handles are rejected by the array): once a value has
\* been stored with set(h, v), h has been deallocated and its slot recycled by
\* allocate, with no later set on the array, get(h) returns None.
StaleArrayGetAbsent ==
    lastSet.phase = "recycled" => get(arr, lastSet.handle) = {}

\* C3, as the code has it: in that situation get(h) still returns Some(v),
\* because the array compares h.generation with the generation stamped by
\* set and never consults the allocator; it is get(h2), for the handle h2 the
\* recycling allocate returned, that returns None.
StaleArrayGetPresent ==
    lastSet.phase = "recycled" =>
        /\ get(arr, lastSet.handle) = {lastSet.value}
        /\ get(arr, lastSet.h2) = {}

\* set(h, v), deallocate(h), allocate() returning h2 have happened in this
\* order, and the slot is live under h2
StaleArrayGetWitness ==
    /\ lastSet.phase = "recycled"
    /\ op = "allocate"
    /\ ret = lastSet.h2
    /\ lastSet.h2.index = lastSet.handle.index
    /\ is_live(entries, lastSet.h2)
    /\ ~is_live(entries, lastSet.handle)

\* C9 (set/get round trip with overwrite): whatever the array held at
\* h.index before (nothing, an entry of any generation, or no such position),
\* get(h) right after set(h, v) returns Some(v); this holds for a set that
\* replaces the entry an earlier set stored at the same index.
SetGetRoundTrip ==
    [][op' = "set" => get(arr', arg') = {val'}]_vars

\* a set has just replaced an entry stored at the same index under another
\* generation and with another value
SetGetRoundTripWitness ==
    /\ op = "set"
    /\ get(arr, arg) = {val}
    /\ val = 2
    /\ arg.generation = 0
    /\ lastSet.handle = arg
    /\ lastSet.replaced = {ArrayEntry(1, 1)}

\* the handles get is asked about: positions within and past the storage,
\* generations stored and never stored
QueryHandles == [index : 0..(MaxArrIndex + 2), generation : 0..(MaxArrGen + 1)]

\* the generation and value of the most recent set at index i, if any
StoredAt(i) == IF i \in DOMAIN setHist THEN setHist[i] ELSE {}

\* C10 (lookup degrades to absent): for every handle h, get(h) returns a
\* value exactly when the most recent set at h.index used generation
\* h.generation, and then it is the value last stored there; it returns None
\* when nothing was set at h.index, when h.index is at or past the storage
\* length, and when the stored generation differs.
LookupRule ==
    \A h \in QueryHandles :
        /\ get(arr, h) = {e.value : e \in {x \in StoredAt(h.index) :
                                               x.generation = h.generation}}
        /\ StoredAt(h.index) = {} => get(arr, h) = {}
        /\ h.index >= Len(arr) => get(arr, h) = {}

\* the array holds an entry at index 0, get finds it under its generation and
\* not under another, and there are positions never set and positions past
\* the storage
LookupRuleWitness ==
    /\ Len(arr) = 2
    /\ \E h \in QueryHandles, g \in QueryHandles :
          /\ h.index = 0 /\ g.index = 0
          /\ get(arr, h) # {}
          /\ get(arr, g) = {} /\ arr[1] # {}
    /\ arr[2] = {}
    /\ op = "get_mut"

\* the slots of the table that a step created or changed
TouchedSlots ==
    {i \in 1..Len(entries') : i > Len(entries) \/ entries'[i] # entries[i]}

\* C11 (operations on one slot do not disturb other handles): every allocate
\* and every deallocate creates or changes at most one slot, and is_live(g) is
\* the same before and after for every handle g whose index differs from the
\* index of the handle returned or passed; after allocate h0, h1, h2,
\* deallocate(h0), the next allocate returns h3 = {index 0, generation 1},
\* is_live(h0) is false, is_live(h3) and is_live(h1) are true.
OtherHandlesUndisturbed ==
    [][/\ op' \in {"allocate", "deallocate"} =>
            LET t == IF op' = "allocate" THEN ret' ELSE arg'
            IN  /\ Cardinality(TouchedSlots) <= 1
                /\ \A g \in Handles :
                      g.index # t.index => is_live(entries', g) = is_live(entries, g)
       /\ ( /\ op = "deallocate" /\ ret = TRUE
            /\ arg = GenerationalIndex(0, 0)
            /\ held = {GenerationalIndex(1, 0), GenerationalIndex(2, 0)}
            /\ freed = {arg} /\ recycled = {}
            /\ op' = "allocate" )
            => /\ ret' = GenerationalIndex(0, 1)
               /\ ~is_live(entries', GenerationalIndex(0, 0))
               /\ is_live(entries', ret')
               /\ is_live(entries', GenerationalIndex(1, 0))]_vars

\* the example: h0, h1, h2 allocated, h0 deallocated, h3 allocated
OtherHandlesUndisturbedWitness ==
    /\ op = "allocate"
    /\ ret = GenerationalIndex(0, 1)
    /\ held = {ret, GenerationalIndex(1, 0), GenerationalIndex(2, 0)}
    /\ recycled = {GenerationalIndex(0, 0)}
    /\ freed = {}

\* C12 (free-list invariant): whatever handles deallocate is given, every
\* index in the free list is a position of the slot table and its slot is
\* dead.
FreeListDead ==
    \A k \in 1..Len(free) :
        /\ free[k] < Len(entries)
        /\ ~entries[free[k] + 1].is_live

\* two indices in the free list, and a deallocate that was turned away
FreeListDeadWitness ==
    /\ Len(free) = 2
    /\ op = "deallocate"
    /\ ret = FALSE
    /\ arg.index = free[1]

\* C13 (a new slot is appended only when the free list is empty): the index
\* on top of a non-empty free list is always reusable (in range, slot dead),
\* so an allocate that finds the free list non-empty returns that index and
\* leaves the table length unchanged, and an allocate that lengthens the
\* table found the free list empty.
AppendOnlyWhenFreeEmpty ==
    [][/\ free' # <<>> => can_reuse(entries', Last(free'))
       /\ (op' = "allocate" /\ free # <<>>)
             => /\ ret'.index = Last(free)
                /\ Len(entries') = Len(entries)
                /\ free' = SubSeq(free, 1, Len(free) - 1)
       /\ (op' = "allocate" /\ Len(entries') # Len(entries)) => free = <<>>]_vars

\* an allocate that reused a slot while another index stayed in the free list
AppendOnlyWhenFreeEmptyWitness ==
    /\ op = "allocate"
    /\ ret.generation = 1
    /\ Len(free) = 1
    /\ Len(entries) = 3

\* C14 (get_mut follows the lookup rule of get): get_mut(h) yields a
\* reference exactly when get(h) yields one, to the same value, in every
\* array state and for every handle; a value written through it is what
\* get(h) returns next, while the generation stored at h.index, the storage
\* length and every other position stay as they were; a get_mut that yields
\* nothing changes nothing.
GetMutLikeGet ==
    [][/\ \A h \in QueryHandles : get_mut(arr', h) = get(arr', h)
       /\ op' = "get_mut" =>
            LET i == arg'.index + 1
            IN  /\ ret' = get(arr, arg')
                /\ ret' = {} => arr' = arr
                /\ ret' # {} =>
                      /\ get(arr', arg') = {val'}
                      /\ Len(arr') = Len(arr)
                      /\ {e.generation : e \in arr'[i]} = {e.generation : e \in arr[i]}
                      /\ \A j \in 1..Len(arr) : j # i => arr'[j] = arr[j]]_vars

\* a get_mut that found the value 1 and through which 2 was written
GetMutLikeGetWitness ==
    /\ op = "get_mut"
    /\ ret = {1}
    /\ val = 2
    /\ get(arr, arg) = {2}
    /\ arg.generation = 1

\* C15 (allocator and array share no state): allocate and deallocate leave
\* the array and the result of get(g) for every handle g unchanged; set and
\* get_mut leave the slot table, the free list and is_live(g) unchanged; and
\* with allocator calls interleaved, get still answers from the set calls
\* made on the array alone.
NoSharedState ==
    [][/\ op' \in {"allocate", "deallocate"} =>
            /\ arr' = arr
            /\ \A g \in QueryHandles : get(arr', g) = get(arr, g)
       /\ op' \in {"set", "get_mut"} =>
            /\ entries' = entries
            /\ free' = free
            /\ \A g \in Handles : is_live(entries', g) = is_live(entries, g)
       /\ \A g \in QueryHandles :
            get(arr', g) = {e.value : e \in {x \in StoredAt(g.index)' :
                                                x.generation = g.generation}}]_vars

\* a successful deallocate of a handle under which the array holds a value
NoSharedStateWitness ==
    /\ op = "deallocate"
    /\ ret = TRUE
    /\ get(arr, arg) # {}
    /\ ~is_live(entries, arg)

\* C16 (set only grows the storage and touches one position): set(h, v)
\* never shortens the storage, makes it longer than h.index, leaves every
\* position it creates other than h.index empty and every other position as
\* it was, so get(g) is unchanged for every handle g of another index.
SetTouchesOnePosition ==
    [][op' = "set" =>
         LET i == arg'.index + 1
         IN  /\ Len(arr') >= Len(arr)
             /\ Len(arr') > arg'.index
             /\ \A j \in (Len(arr) + 1)..Len(arr') : j # i => arr'[j] = {}
             /\ \A j \in 1..Len(arr) : j # i => arr'[j] = arr[j]
             /\ \A g \in QueryHandles :
                   g.index # arg'.index => get(arr', g) = get(arr, g)]_vars

\* a set at index 0 of an array that holds an entry at index 1
SetTouchesOnePositionWitness ==
    /\ op = "set"
    /\ arg.index = 0
    /\ Len(arr) = 3
    /\ arr[2] # {}
    /\ lastSet.replaced = {}

\* C17 (generation wraparound): with a counter of w bits that wraps, allocate
\* returns a handle equal to one it returned before exactly when the slot
\* has been reused 2^w - 1 times since, this call being the 2^w-th; the old
\* handle is then live again and deallocate accepts it.
WraparoundMatchesOldHandle ==
    [][op' = "allocate" =>
         /\ \A k \in known :
               k.index = ret'.index => (ret' = k <=> AgeOf(k) = GenModulus - 1)
         /\ ret' \in known =>
               /\ is_live(entries', ret')
               /\ deallocate(entries', free', ret').ret = TRUE]_vars

\* deallocate has accepted a handle whose slot had been recycled
WraparoundMatchesOldHandleWitness ==
    /\ op = "deallocate"
    /\ ret = TRUE
    /\ arg \in recycled
    /\ arg.generation = 1

\* C18 (liveness matches the call history): whatever handles deallocate is
\* given, is_live(h) is true exactly for the handles h that allocate has
\* returned and for which no deallocate(h) has returned true since; the
\* handle allocate has just returned is live.
LiveIffHeld ==
    /\ \A h \in Handles : is_live(entries, h) <=> h \in held
    /\ held \subseteq Handles
    /\ op = "allocate" => is_live(entries, ret)

\* a handle held, one released and one recycled, after a deallocate that
\* returned true
LiveIffHeldWitness ==
    /\ op = "deallocate"
    /\ ret = TRUE
    /\ held # {}
    /\ recycled # {}
    /\ ~is_live(entries, arg)

\* C19 (issued handles are unique): allocate never returns a handle it has
\* returned before; no step shortens the slot table or lowers the generation
\* of a slot; deallocate leaves every generation as it was; an allocate that
\* reuses a slot raises its generation by exactly 1.
IssuedHandlesUnique ==
    [][/\ Len(entries') >= Len(entries)
       /\ \A i \in 1..Len(entries) :
             entries'[i].generation >= entries[i].generation
       /\ op' = "deallocate" =>
             \A i \in 1..Len(entries) :
                 entries'[i].generation = entries[i].generation
       /\ op' = "allocate" =>
             /\ ret' \notin known
             /\ Len(entries') = Len(entries) =>
                   entries'[ret'.index + 1].generation
                       = entries[ret'.index + 1].generation + 1
             /\ ret'.generation = entries'[ret'.index + 1].generation]_vars

\* the third handle issued for one slot, with five handles issued before
IssuedHandlesUniqueWitness ==
    /\ op = "allocate"
    /\ ret.generation = 2
    /\ Cardinality(known) >= 6

\* the slots of the table that are dead
DeadSlots == {i \in 0..(Len(entries) - 1) : ~entries[i + 1].is_live}

\* C20 (the free list is exactly the dead slots): the free list holds no
\* index twice and holds the index of every dead slot and nothing else, so
\* the table length is the number of live slots plus the length of the free
\* list; and the table grows only when every slot is live.
FreeListIsDeadSlots ==
    [][/\ \A j \in 1..Len(free'), k \in 1..Len(free') :
             free'[j] = free'[k] => j = k
       /\ {free'[k] : k \in 1..Len(free')} = DeadSlots'
       /\ Len(entries') = Cardinality({i \in 1..Len(entries') : entries'[i].is_live})
                              + Len(free')
       /\ Len(entries') > Len(entries) =>
             \A i \in 1..Len(entries) : entries[i].is_live]_vars

\* one dead slot left in the free list after an allocate that reused another
FreeListIsDeadSlotsWitness ==
    /\ Len(entries) = 3
    /\ Len(free) = 1
    /\ op = "allocate"
    /\ ret.generation = 1
    /\ Cardinality(freed) = 1

====
